---- MODULE Spec2Model ----
(***************************************************************************)
(* The MSLP dashboard script src/src/main.py as a state machine: one run   *)
(* of the script loads one CSV file per storage prefix, combines the       *)
(* loaded tables, reads the sidebar widgets, filters, aggregates and plots.*)
(*                                                                         *)
(* Representation.  A DataFrame is a sequence of rows (records).  A text   *)
(* that the script takes apart (a storage prefix) is a sequence of         *)
(* one-character strings; every other text is a string.  A timestamp text  *)
(* "day hour" is a pair <<day, hour>> with day 0 = 2023-07-13, and a       *)
(* parsed Timestamp is a number of hours since day 0, 00:00.  A float is   *)
(* an exact fraction <<numerator, denominator>> in lowest terms.           *)
(* Coordinates are whole degrees.                                          *)
(***************************************************************************)
EXTENDS Integers, Sequences, FiniteSets, TLC

\* Rows per CSV file.
MaxRows == 2

(***************************************************************************)
(* Text                                                                    *)
(***************************************************************************)
prefixes ==
    << <<"g","e","n","c","a","s","t","_","m","s","l","p","/">>,
       <<"g","e","f","s","_","m","s","l","p","/">>,
       <<"i","f","s","_","m","s","l","p","/">> >>

\* The letters that occur, lower case and upper case.
Letters ==
    { <<"a","A">>, <<"c","C">>, <<"e","E">>, <<"f","F">>, <<"g","G">>,
      <<"i","I">>, <<"l","L">>, <<"m","M">>, <<"n","N">>, <<"p","P">>,
      <<"s","S">>, <<"t","T">> }

upper(c) ==
    IF \E l \in Letters : l[1] = c
    THEN (CHOOSE l \in Letters : l[1] = c)[2]
    ELSE c

lower(c) ==
    IF \E l \in Letters : l[2] = c
    THEN (CHOOSE l \in Letters : l[2] = c)[1]
    ELSE c

\* str.split(sep)[0]: the text before the first sep, all of it when there is none.
split_first(cs, sep) ==
    IF \E k \in 1..Len(cs) : cs[k] = sep
    THEN SubSeq(cs, 1, (CHOOSE k \in 1..Len(cs) :
                            cs[k] = sep /\ \A j \in 1..(k - 1) : cs[j] # sep) - 1)
    ELSE cs

\* str.capitalize(): first character upper case, the rest lower case.
capitalize(cs) ==
    [k \in 1..Len(cs) |-> IF k = 1 THEN upper(cs[k]) ELSE lower(cs[k])]

RECURSIVE join(_)
join(cs) == IF cs = <<>> THEN "" ELSE Head(cs) \o join(Tail(cs))

\* dataset = prefix.split('_')[0].capitalize()
dataset_of(prefix) == join(capitalize(split_first(prefix, "_")))

\* Python's order of the texts that are sorted (code point by code point).
StrOrder == <<"0", "1", "GEFS", "Gefs", "Gencast", "IFS", "Ifs">>

StrRank(s) == CHOOSE k \in 1..Len(StrOrder) : StrOrder[k] = s

(***************************************************************************)
(* Floats as exact fractions                                               *)
(***************************************************************************)
RECURSIVE GCD(_, _)
GCD(a, b) == IF b = 0 THEN a ELSE GCD(b, a % b)

Abs(n) == IF n < 0 THEN -n ELSE n

\* n / d, d > 0, in lowest terms.
Rat(n, d) == LET g == GCD(Abs(n), d) IN <<n \div g, d \div g>>

RAdd(x, y) == Rat(x[1] * y[2] + y[1] * x[2], x[2] * y[2])

RSub(x, y) == Rat(x[1] * y[2] - y[1] * x[2], x[2] * y[2])

RMul(x, y) == Rat(x[1] * y[1], x[2] * y[2])

RLeq(x, y) == x[1] * y[2] <= y[1] * x[2]

RECURSIVE RSum(_)
RSum(xs) == IF xs = <<>> THEN Rat(0, 1) ELSE RAdd(Head(xs), RSum(Tail(xs)))

(***************************************************************************)
(* Tables                                                                  *)
(***************************************************************************)
None == [some |-> FALSE, rows |-> <<>>]

DF(rows) == [some |-> TRUE, rows |-> rows]

(***************************************************************************)
(* Inputs: the CSV files a storage prefix may hold for the selected date   *)
(***************************************************************************)
SeqsUpTo(S, n) == UNION {[1..k -> S] : k \in 0..n}

GencastRows ==
    { [Sample |-> "0", Datetime |-> <<0, 12>>, Time_Step |-> 0, MSLP |-> 100500,
       Latitude |-> 10, Longitude |-> 110],
      [Sample |-> "0", Datetime |-> <<0, 12>>, Time_Step |-> 2, MSLP |-> 100800,
       Latitude |-> 20, Longitude |-> 120],
      [Sample |-> "IFS", Datetime |-> <<0, 0>>, Time_Step |-> 1, MSLP |-> 101000,
       Latitude |-> 5, Longitude |-> 125] }

GEFSRows ==
    { [Member |-> "0", Timestamp |-> <<0, 12>>, MSLP |-> 1000,
       Latitude |-> 10, Longitude |-> 110],
      [Member |-> "1", Timestamp |-> <<1, 0>>, MSLP |-> 1008,
       Latitude |-> 20, Longitude |-> 120] }

IFSRows ==
    { [Datetime |-> <<0, 12>>, Minimum_MSLP_hPa |-> 1000,
       Latitude |-> 10, Longitude |-> 110],
      [Datetime |-> <<0, 12>>, Minimum_MSLP_hPa |-> 1008,
       Latitude |-> 20, Longitude |-> 100] }

\* A CSV file without the Latitude column.
NoLatitudeRows == { [Datetime |-> <<0, 12>>, Minimum_MSLP_hPa |-> 1000, Longitude |-> 110] }

CsvFiles(columns, pool) ==
    { [status |-> "ok", columns |-> columns, rows |-> rs] : rs \in SeqsUpTo(pool, MaxRows) }

Files ==
    CsvFiles({"Sample", "Datetime", "Time_Step", "MSLP", "Latitude", "Longitude"}, GencastRows)
    \cup CsvFiles({"Member", "Timestamp", "MSLP", "Latitude", "Longitude"}, GEFSRows)
    \cup CsvFiles({"Datetime", "Minimum_MSLP_hPa", "Latitude", "Longitude"}, IFSRows)
    \cup CsvFiles({"Datetime", "Minimum_MSLP_hPa", "Longitude"}, NoLatitudeRows)

\* The download or the parse raises.
BrokenFile == [status |-> "error", columns |-> {}, rows |-> <<>>]

\* The prefix holds no file of the selected date.
NoFile == [status |-> "absent", columns |-> {}, rows |-> <<>>]

(***************************************************************************)
(* load_data                                                               *)
(***************************************************************************)
\* timedelta(hours=Time_Step * 12)
StepHours == 12

\* df['MSLP'] / 1000
GencastDivisor == 1000

\* pd.to_datetime of a "day hour" text.
to_datetime(t) == t[1] * 24 + t[2]

\* A step taken for a day.
forecast_datetime_daily_steps(row) == to_datetime(row.Datetime) + row.Time_Step * 24

gencast_forecast_datetime(row) == to_datetime(row.Datetime) + row.Time_Step * StepHours

gencast_row(dataset, row) ==
    [Dataset |-> dataset, Ensemble |-> row.Sample,
     Forecast_Datetime |-> gencast_forecast_datetime(row),
     MSLP |-> Rat(row.MSLP, GencastDivisor),
     Latitude |-> row.Latitude, Longitude |-> row.Longitude]

gefs_row(dataset, row) ==
    [Dataset |-> dataset, Ensemble |-> row.Member,
     Forecast_Datetime |-> to_datetime(row.Timestamp),
     MSLP |-> Rat(row.MSLP, 1),
     Latitude |-> row.Latitude, Longitude |-> row.Longitude]

ifs_row(dataset, row) ==
    [Dataset |-> dataset, Ensemble |-> "IFS",
     Forecast_Datetime |-> to_datetime(row.Datetime),
     MSLP |-> Rat(row.Minimum_MSLP_hPa, 1),
     Latitude |-> row.Latitude, Longitude |-> row.Longitude]

\* The ingestion branch load_data takes for a dataset name.
branch_of(dataset) ==
    IF dataset = "Gencast" THEN "Gencast"
    ELSE IF dataset = "GEFS" THEN "GEFS"
    ELSE "IFS"

required_columns(branch) ==
    IF branch = "Gencast" THEN {"Sample", "Datetime", "Time_Step", "MSLP"}
    ELSE IF branch = "GEFS" THEN {"Member", "Timestamp", "MSLP"}
    ELSE {"Datetime", "Minimum_MSLP_hPa"}

\* The values load_data(file_path, dataset) may return: a table or None.  Every
\* exception ends in None.  On a Gencast file without rows DataFrame.apply returns
\* a frame, and whether assigning it to a column raises depends on the pandas
\* version: both outcomes are possible.
load_data(file, dataset) ==
    IF file.status = "error" THEN {None}
    ELSE IF ~({"Latitude", "Longitude"} \subseteq file.columns) THEN {None}
    ELSE IF ~(required_columns(branch_of(dataset)) \subseteq file.columns) THEN {None}
    ELSE IF branch_of(dataset) = "Gencast" THEN
        IF file.rows = <<>> THEN {None, DF(<<>>)}
        ELSE {DF([k \in 1..Len(file.rows) |-> gencast_row(dataset, file.rows[k])])}
    ELSE IF branch_of(dataset) = "GEFS" THEN
        {DF([k \in 1..Len(file.rows) |-> gefs_row(dataset, file.rows[k])])}
    ELSE
        {DF([k \in 1..Len(file.rows) |-> ifs_row(dataset, file.rows[k])])}

(***************************************************************************)
(* Combining the loaded tables                                             *)
(***************************************************************************)
concat(tables) ==
    IF tables = <<>> THEN DF(<<>>)
    ELSE IF Len(tables) = 1 THEN DF(tables[1].rows)
    ELSE IF Len(tables) = 2 THEN DF(tables[1].rows \o tables[2].rows)
    ELSE DF(tables[1].rows \o tables[2].rows \o tables[3].rows)

combine(g, e, f) ==
    IF g.some /\ e.some /\ f.some THEN concat(<<g, e, f>>)
    ELSE IF g.some /\ e.some THEN concat(<<g, e>>)
    ELSE IF g.some /\ f.some THEN concat(<<g, f>>)
    ELSE IF e.some /\ f.some THEN concat(<<e, f>>)
    ELSE IF g.some THEN g
    ELSE IF e.some THEN e
    ELSE IF f.some THEN f
    ELSE None

(***************************************************************************)
(* Sidebar                                                                 *)
(***************************************************************************)
\* sorted(table['Ensemble'].unique()) if table is not None else []: a selector's options.
ensemble_options(table) == {table.rows[k].Ensemble : k \in 1..Len(table.rows)}

stat_options == {"Mean", "Median", "25th Percentile", "75th Percentile"}

\* max_selections=2
MaxSelections == 2

\* The slider positions tried: the default, the whole range, and a narrower one.
LatRanges == {<<0, 25>>, <<10, 20>>}

LonRanges == {<<100, 125>>, <<110, 120>>}

(***************************************************************************)
(* Filter                                                                  *)
(***************************************************************************)
\* Both ends exclusive.
between_exclusive(x, lo, hi) == lo < x /\ x < hi

\* Series.between(lo, hi): both ends inclusive.
between(x, lo, hi) == lo <= x /\ x <= hi

filter_rows(rows, ensembles, lat, lon) ==
    LET keep(row) == /\ row.Ensemble \in ensembles
                     /\ between(row.Latitude, lat[1], lat[2])
                     /\ between(row.Longitude, lon[1], lon[2])
    IN  SelectSeq(rows, keep)

(***************************************************************************)
(* Grouping, sorting and aggregation                                       *)
(***************************************************************************)
Column(rows, c) == [k \in 1..Len(rows) |-> rows[k][c]]

Values(seq) == {seq[k] : k \in 1..Len(seq)}

\* drop_duplicates(): the first occurrence of each value, in order.
RECURSIVE drop_duplicates(_)
drop_duplicates(seq) ==
    IF seq = <<>> THEN <<>>
    ELSE LET front == drop_duplicates(SubSeq(seq, 1, Len(seq) - 1))
             last  == seq[Len(seq)]
         IN  IF last \in Values(front) THEN front ELSE Append(front, last)

\* sort_values('Forecast_Datetime'): ascending.  pandas does not fix the order of
\* rows of one time; here they keep their order, and no property below reads it.
RECURSIVE sort_values(_)
sort_values(rows) ==
    IF rows = <<>> THEN <<>>
    ELSE LET k == CHOOSE a \in 1..Len(rows) :
                    /\ \A b \in 1..Len(rows) :
                          rows[a].Forecast_Datetime <= rows[b].Forecast_Datetime
                    /\ \A b \in 1..(a - 1) :
                          rows[b].Forecast_Datetime # rows[a].Forecast_Datetime
         IN  <<rows[k]>> \o sort_values(SubSeq(rows, 1, k - 1) \o SubSeq(rows, k + 1, Len(rows)))

\* The order of the group keys <<Forecast_Datetime, Ensemble, Dataset>>.
key_leq(a, b) ==
    \/ a[1] < b[1]
    \/ a[1] = b[1] /\ StrRank(a[2]) < StrRank(b[2])
    \/ a[1] = b[1] /\ a[2] = b[2] /\ StrRank(a[3]) <= StrRank(b[3])

\* The group keys latest first.
RECURSIVE keys_descending(_)
keys_descending(keys) ==
    IF keys = {} THEN <<>>
    ELSE LET m == CHOOSE a \in keys : \A b \in keys : key_leq(b, a)
         IN  <<m>> \o keys_descending(keys \ {m})

\* groupby sorts the group keys.
RECURSIVE sorted_keys(_)
sorted_keys(keys) ==
    IF keys = {} THEN <<>>
    ELSE LET m == CHOOSE a \in keys : \A b \in keys : key_leq(a, b)
         IN  <<m>> \o sorted_keys(keys \ {m})

RECURSIVE sorted_times(_)
sorted_times(times) ==
    IF times = {} THEN <<>>
    ELSE LET m == CHOOSE a \in times : \A b \in times : a <= b
         IN  <<m>> \o sorted_times(times \ {m})

\* The values in ascending order.
RECURSIVE sorted_values(_)
sorted_values(xs) ==
    IF xs = <<>> THEN <<>>
    ELSE LET k == CHOOSE a \in 1..Len(xs) : \A b \in 1..Len(xs) : RLeq(xs[a], xs[b])
         IN  <<xs[k]>> \o sorted_values(SubSeq(xs, 1, k - 1) \o SubSeq(xs, k + 1, Len(xs)))

\* The sum in place of the mean.
total(xs) == RSum(xs)

mean(xs) == RMul(RSum(xs), Rat(1, Len(xs)))

median(xs) ==
    LET s == sorted_values(xs)
        n == Len(s)
    IN  IF n % 2 = 1 THEN s[(n + 1) \div 2]
        ELSE RMul(RAdd(s[n \div 2], s[n \div 2 + 1]), Rat(1, 2))

\* Series.quantile(q), q = <<numerator, denominator>>: linear interpolation
\* between the order statistics around position (n - 1) * q.
quantile(xs, q) ==
    LET s    == sorted_values(xs)
        n    == Len(s)
        h    == (n - 1) * q[1]
        lo   == h \div q[2]
        frac == Rat(h % q[2], q[2])
    IN  IF lo + 2 > n THEN s[lo + 1]
        ELSE RAdd(s[lo + 1], RMul(frac, RSub(s[lo + 2], s[lo + 1])))

\* filtered_df.groupby(['Forecast_Datetime', 'Ensemble', 'Dataset'])['MSLP'].mean().reset_index()
per_member_series(rows) ==
    LET key(r) == <<r.Forecast_Datetime, r.Ensemble, r.Dataset>>
        keys   == sorted_keys({key(rows[k]) : k \in 1..Len(rows)})
        grp(g) == LET in_group(r) == key(r) = g IN SelectSeq(rows, in_group)
    IN  [j \in 1..Len(keys) |->
            [Forecast_Datetime |-> keys[j][1], Ensemble |-> keys[j][2],
             Dataset |-> keys[j][3], MSLP |-> mean(Column(grp(keys[j]), "MSLP"))]]

\* The column names agg gives when they are not set.
agg_columns == <<"Forecast_Datetime", "mean", "median", "<lambda_0>", "<lambda_1>">>

\* stats_df.columns = [...]
stats_columns == <<"Forecast_Datetime", "Mean", "Median", "25th Percentile", "75th Percentile">>

\* filtered_df.groupby('Forecast_Datetime')['MSLP'].agg(['mean', 'median',
\*     lambda x: x.quantile(0.25), lambda x: x.quantile(0.75)]).reset_index()
summary_statistics(rows) ==
    LET times  == sorted_times({rows[k].Forecast_Datetime : k \in 1..Len(rows)})
        grp(t) == LET at_time(r) == r.Forecast_Datetime = t IN SelectSeq(rows, at_time)
        agg(n, t, xs) ==
            IF n = 1 THEN t
            ELSE IF n = 2 THEN mean(xs)
            ELSE IF n = 3 THEN median(xs)
            ELSE IF n = 4 THEN quantile(xs, <<1, 4>>)
            ELSE quantile(xs, <<3, 4>>)
    IN  [j \in 1..Len(times) |->
            LET xs == Column(grp(times[j]), "MSLP")
            IN  [c \in Values(stats_columns) |->
                    agg(CHOOSE n \in 1..Len(stats_columns) : stats_columns[n] = c,
                        times[j], xs)]]

(***************************************************************************)
(* Figures                                                                 *)
(***************************************************************************)
RECURSIVE flatten(_)
flatten(seqs) == IF seqs = <<>> THEN <<>> ELSE Head(seqs) \o flatten(Tail(seqs))

trajectories(rows) ==
    drop_duplicates([k \in 1..Len(rows) |-> <<rows[k].Ensemble, rows[k].Dataset>>])

trajectory_rows(rows, key) ==
    LET match(r) == r.Ensemble = key[1] /\ r.Dataset = key[2] IN SelectSeq(rows, match)

\* f'{dataset} Ensemble {ensemble}'
trace_name(key) == key[2] \o " Ensemble " \o key[1]

\* One line per (Ensemble, Dataset) of sample_df.
member_traces(sample) ==
    LET keys == trajectories(sample)
    IN  [j \in 1..Len(keys) |->
            LET data == trajectory_rows(sample, keys[j])
            IN  [name |-> trace_name(keys[j]), ensemble |-> keys[j][1], dataset |-> keys[j][2],
                 x |-> Column(data, "Forecast_Datetime"), y |-> Column(data, "MSLP"),
                 dash |-> IF keys[j][2] = "Gencast" THEN "dash"
                          ELSE IF keys[j][2] = "GEFS" THEN "solid" ELSE "dot"]]

\* sorted(selected_stats, key=lambda x: x if x != '25th Percentile' else 'z')
StatKeyOrder == <<"75th Percentile", "Mean", "Median", "25th Percentile">>

ordered_stats(selected) ==
    LET in_selection(t) == t \in selected IN SelectSeq(StatKeyOrder, in_selection)

stat_trace(stats, stat, filled) ==
    [name |-> stat, x |-> Column(stats, "Forecast_Datetime"), y |-> Column(stats, stat),
     dash |-> IF stat \in {"Mean", "Median"} THEN "solid" ELSE "dot", fill |-> filled]

\* The statistics lines of the time series figure.
stat_traces(stats, selected) ==
    IF Cardinality(selected) = 2 THEN
        LET ordered == ordered_stats(selected)
        IN  flatten([n \in 1..2 |->
                IF ordered[n] \in Values(stats_columns)
                THEN <<stat_trace(stats, ordered[n], n = 2)>> ELSE <<>>])
    ELSE IF Cardinality(selected) = 1 THEN
        LET stat == CHOOSE t \in selected : TRUE
        IN  IF stat \in Values(stats_columns) THEN <<stat_trace(stats, stat, FALSE)>> ELSE <<>>
    ELSE <<>>

\* f"{mslp:.2f}": the value in hundredths, rounded to the nearest, ties to even.
hundredths(x) ==
    LET v == 100 * x[1]
        q == v \div x[2]
        r == v % x[2]
    IN  IF 2 * r > x[2] \/ (2 * r = x[2] /\ q % 2 = 1) THEN q + 1 ELSE q

distinct_times(rows) == {rows[k].Forecast_Datetime : k \in 1..Len(rows)}

\* A line from one timestamp on.
has_line_from_one(data) == Cardinality(distinct_times(data)) > 0

\* len(ensemble_data['Forecast_Datetime'].unique()) > 1
has_line(data) == Cardinality(distinct_times(data)) > 1

\* The map loop: per trajectory of map_df a line trace, or a warning.  Every table
\* has the Latitude and Longitude columns (line 97), so line 252 never skips.
map_items(filtered) ==
    LET map_df == sort_values(filtered)
        keys   == trajectories(map_df)
    IN  [j \in 1..Len(keys) |->
            LET data == sort_values(trajectory_rows(map_df, keys[j]))
            IN  IF has_line(data)
                THEN [kind |-> "line", name |-> trace_name(keys[j]),
                      ensemble |-> keys[j][1], dataset |-> keys[j][2],
                      lat |-> Column(data, "Latitude"), lon |-> Column(data, "Longitude"),
                      text |-> [k \in 1..Len(data) |->
                                  <<hundredths(data[k].MSLP), data[k].Forecast_Datetime>>]]
                ELSE [kind |-> "warning", name |-> trace_name(keys[j]),
                      ensemble |-> keys[j][1], dataset |-> keys[j][2],
                      timestamps |-> Cardinality(distinct_times(data))]]

map_traces(filtered) ==
    LET is_line(t) == t.kind = "line" IN SelectSeq(map_items(filtered), is_line)

map_warnings(filtered) ==
    LET is_warning(t) == t.kind = "warning" IN SelectSeq(map_items(filtered), is_warning)

(***************************************************************************)
(* The script                                                              *)
(***************************************************************************)
VARIABLES
    pc,                 \* where the run is: "load", "combine", "render", "done"
    i,                  \* the load loop's position in prefixes
    gencast_df, gefs_df, ifs_df,
    calls,              \* the load loop's calls of load_data and what each returned,
                        \* kept until the tables are combined
    df,                 \* the combined table
    selected_gencast, selected_gefs, selected_ifs,
    selected_ensembles, selected_stats,
    lat_range, lon_range,
    filtered_df, sample_df, stats_df,
    fig_time, fig_map,
    messages,           \* st.warning and st.error of lines 253-289, in order (the
                        \* error texts of load_data are not kept)
    arg_file, arg_dataset, result   \* one call of load_data on its own

slots == <<gencast_df, gefs_df, ifs_df>>

sidebar == <<selected_gencast, selected_gefs, selected_ifs, selected_ensembles,
             selected_stats, lat_range, lon_range>>

page == <<filtered_df, sample_df, stats_df, fig_time, fig_map, messages>>

call == <<arg_file, arg_dataset, result>>

vars == <<pc, i, slots, calls, df, sidebar, page, call>>

Blank ==
    /\ i = 1
    /\ gencast_df = None /\ gefs_df = None /\ ifs_df = None
    /\ calls = <<>>
    /\ df = None
    /\ selected_gencast = {} /\ selected_gefs = {} /\ selected_ifs = {}
    /\ selected_ensembles = {} /\ selected_stats = {}
    /\ lat_range = <<0, 25>> /\ lon_range = <<100, 125>>
    /\ filtered_df = <<>> /\ sample_df = <<>> /\ stats_df = <<>>
    /\ fig_time = <<>> /\ fig_map = <<>>
    /\ messages = <<>>

Init ==
    /\ pc = "load"
    /\ Blank
    /\ arg_file = NoFile /\ arg_dataset = "" /\ result = None

\* if dataset == "Gencast": gencast_df = df / elif dataset == "GEFS": gefs_df = df /
\* else: ifs_df = df
store(position, dataset, table, old) ==
    IF dataset = "Gencast" THEN [old EXCEPT ![1] = table]
    ELSE IF dataset = "GEFS" THEN [old EXCEPT ![2] = table]
    ELSE [old EXCEPT ![3] = table]

\* One pass of the load loop: the file of the selected date under prefixes[i], if
\* any, is loaded and, unless load_data returned None, stored in its slot.
LoadDataset ==
    /\ pc = "load"
    /\ \E file \in Files \cup {BrokenFile, NoFile} :
          LET dataset == dataset_of(prefixes[i])
          IN  IF file.status = "absent"
              THEN UNCHANGED <<slots, calls>>
              ELSE \E table \in load_data(file, dataset) :
                      /\ calls' = Append(calls, [position |-> i, dataset |-> dataset,
                                                 columns |-> file.columns,
                                                 returned |-> table])
                      /\ IF table.some
                         THEN LET stored == store(i, dataset, table, slots)
                              IN  /\ gencast_df' = stored[1]
                                  /\ gefs_df' = stored[2]
                                  /\ ifs_df' = stored[3]
                         ELSE UNCHANGED slots
    /\ i' = i + 1
    /\ pc' = IF i = Len(prefixes) THEN "combine" ELSE "load"
    /\ UNCHANGED <<df, sidebar, page, call>>

Combine ==
    /\ pc = "combine"
    /\ df' = combine(gencast_df, gefs_df, ifs_df)
    /\ calls' = <<>>
    /\ pc' = "render"
    /\ UNCHANGED <<i, slots, sidebar, page, call>>

\* The rest of the script.  The sidebar widgets return what the user has set; the
\* table is filtered; if rows remain both figures are drawn, and if none does a
\* warning is shown.
RenderPage ==
    /\ pc = "render"
    /\ df.some
    /\ \E sg \in SUBSET ensemble_options(gencast_df), se \in SUBSET ensemble_options(gefs_df),
          sf \in SUBSET ensemble_options(ifs_df),
          stats \in {t \in SUBSET stat_options : Cardinality(t) <= MaxSelections},
          lat \in LatRanges, lon \in LonRanges :
          LET filtered == filter_rows(df.rows, sg \cup se \cup sf, lat, lon)
              sample   == per_member_series(filtered)
              summary  == summary_statistics(filtered)
          IN  /\ selected_gencast' = sg
              /\ selected_gefs' = se
              /\ selected_ifs' = sf
              /\ selected_ensembles' = sg \cup se \cup sf
              /\ selected_stats' = stats
              /\ lat_range' = lat
              /\ lon_range' = lon
              /\ filtered_df' = filtered
              /\ IF filtered # <<>>
                 THEN /\ sample_df' = sample
                      /\ stats_df' = summary
                      /\ fig_time' = member_traces(sample) \o stat_traces(summary, stats)
                      /\ fig_map' = map_traces(filtered)
                      /\ messages' = map_warnings(filtered)
                 ELSE /\ messages' = <<[kind |-> "no_data"]>>
                      /\ UNCHANGED <<sample_df, stats_df, fig_time, fig_map>>
    /\ pc' = "done"
    /\ UNCHANGED <<i, slots, calls, df, call>>

\* The rest of the script when df is None: an error, and nothing else.
ReportNoFiles ==
    /\ pc = "render"
    /\ ~df.some
    /\ messages' = <<[kind |-> "no_files"]>>
    /\ pc' = "done"
    /\ UNCHANGED <<i, slots, calls, df, sidebar, filtered_df, sample_df, stats_df,
                   fig_time, fig_map, call>>

Next == LoadDataset \/ Combine \/ RenderPage \/ ReportNoFiles

Spec == Init /\ [][Next]_vars

(***************************************************************************)
(* load_data called on its own, on any file under any dataset name         *)
(***************************************************************************)
DatasetNames == {"Gencast", "GEFS", "IFS"} \cup {dataset_of(prefixes[n]) : n \in 1..Len(prefixes)}

InitLoad ==
    /\ pc = "call"
    /\ Blank
    /\ arg_file \in Files \cup {BrokenFile}
    /\ arg_dataset \in DatasetNames
    /\ result = None

CallLoadData ==
    /\ pc = "call"
    /\ result' \in load_data(arg_file, arg_dataset)
    /\ pc' = "returned"
    /\ UNCHANGED <<i, slots, calls, df, sidebar, page, arg_file, arg_dataset>>

NextLoad == CallLoadData

SpecLoad == InitLoad /\ [][NextLoad]_vars

(***************************************************************************)
(* Properties                                                              *)
(***************************************************************************)
Indices(seq) == 1..Len(seq)

\* The sum of the MSLP of the rows of filtered_df at the positions K.
RECURSIVE SumAt(_)
SumAt(K) ==
    IF K = {} THEN Rat(0, 1)
    ELSE LET k == CHOOSE n \in K : TRUE
         IN  RAdd(filtered_df[k].MSLP, SumAt(K \ {k}))

Plotted == pc = "done" /\ filtered_df # <<>>

\* C1: load_data gives every Gencast row the time Datetime + Time_Step * 12 hours,
\* and every GEFS or IFS row its Timestamp or Datetime as it is; the rows of the
\* table are those of the file, one for one.
C1_ForecastDatetime ==
    (pc = "returned" /\ result.some) =>
        /\ Len(result.rows) = Len(arg_file.rows)
        /\ \A k \in Indices(result.rows) :
              LET raw == arg_file.rows[k]
              IN  result.rows[k].Forecast_Datetime =
                    IF arg_dataset = "Gencast"
                    THEN (raw.Datetime[1] * 24 + raw.Datetime[2]) + raw.Time_Step * 12
                    ELSE IF arg_dataset = "GEFS"
                    THEN raw.Timestamp[1] * 24 + raw.Timestamp[2]
                    ELSE raw.Datetime[1] * 24 + raw.Datetime[2]

\* A Gencast row of 2023-07-13 12:00 and Time_Step 2 was given 2023-07-14 12:00, and
\* one of Time_Step 0 its base time.
C1_Witness ==
    /\ pc = "returned" /\ result.some /\ arg_dataset = "Gencast"
    /\ \E k \in Indices(result.rows) :
          /\ arg_file.rows[k].Datetime = <<0, 12>> /\ arg_file.rows[k].Time_Step = 2
          /\ result.rows[k].Forecast_Datetime = 36
    /\ \E k \in Indices(result.rows) :
          /\ arg_file.rows[k].Datetime = <<0, 12>> /\ arg_file.rows[k].Time_Step = 0
          /\ result.rows[k].Forecast_Datetime = 12

\* C2: after load_data every Gencast row's MSLP is its raw MSLP divided by 100
\* (100500 Pa gives 1005.0 hPa).
C2_GencastPascalToHectopascal ==
    (pc = "returned" /\ result.some /\ arg_dataset = "Gencast") =>
        \A k \in Indices(result.rows) :
            result.rows[k].MSLP = Rat(arg_file.rows[k].MSLP, 100)

\* The rows of df the filter is to keep.
Kept ==
    {k \in Indices(df.rows) :
        /\ df.rows[k].Ensemble \in selected_ensembles
        /\ lat_range[1] <= df.rows[k].Latitude /\ df.rows[k].Latitude <= lat_range[2]
        /\ lon_range[1] <= df.rows[k].Longitude /\ df.rows[k].Longitude <= lon_range[2]}

\* C3: filtered_df is exactly the rows of df whose Ensemble is selected and whose
\* Latitude and Longitude lie in the slider ranges, ends included, in df's order; df
\* is still the combination of the loaded tables; with no ensemble selected nothing
\* is kept; and when nothing is kept the page shows the no-data warning only.
C3_Filter ==
    (pc = "done" /\ df.some) =>
        /\ Len(filtered_df) = Cardinality(Kept)
        /\ \A j \in Indices(filtered_df) :
              filtered_df[j] =
                df.rows[CHOOSE k \in Kept : Cardinality({m \in Kept : m < k}) = j - 1]
        /\ df = combine(gencast_df, gefs_df, ifs_df)
        /\ selected_ensembles = {} => filtered_df = <<>>
        /\ filtered_df = <<>> => messages = <<[kind |-> "no_data"]>>

\* With narrowed sliders a row at the lower end and a row at the upper end of both
\* ranges were kept, and a row of a selected ensemble outside a range was dropped.
C3_Witness ==
    /\ pc = "done" /\ df.some
    /\ lat_range # <<0, 25>> /\ lon_range # <<100, 125>>
    /\ \E j \in Indices(filtered_df) :
          filtered_df[j].Latitude = lat_range[1] /\ filtered_df[j].Longitude = lon_range[1]
    /\ \E j \in Indices(filtered_df) :
          filtered_df[j].Latitude = lat_range[2] /\ filtered_df[j].Longitude = lon_range[2]
    /\ \E k \in Indices(df.rows) :
          df.rows[k].Ensemble \in selected_ensembles /\ k \notin Kept

GroupKey(r) == <<r.Forecast_Datetime, r.Ensemble, r.Dataset>>

\* C4: sample_df has one row per (Forecast_Datetime, Ensemble, Dataset) of
\* filtered_df, holding the arithmetic mean of the group's MSLP, and within one
\* (Ensemble, Dataset) its times strictly ascend, as do the x values of every member
\* line of the time series figure.
C4_PerMemberSeries ==
    Plotted =>
        /\ {GroupKey(sample_df[j]) : j \in Indices(sample_df)}
              = {GroupKey(filtered_df[k]) : k \in Indices(filtered_df)}
        /\ \A j, k \in Indices(sample_df) :
              j # k => GroupKey(sample_df[j]) # GroupKey(sample_df[k])
        /\ \A j \in Indices(sample_df) :
              LET K == {k \in Indices(filtered_df) :
                          GroupKey(filtered_df[k]) = GroupKey(sample_df[j])}
              IN  RMul(sample_df[j].MSLP, Rat(Cardinality(K), 1)) = SumAt(K)
        /\ \A j, k \in Indices(sample_df) :
              (/\ j < k
               /\ sample_df[j].Ensemble = sample_df[k].Ensemble
               /\ sample_df[j].Dataset = sample_df[k].Dataset)
              => sample_df[j].Forecast_Datetime < sample_df[k].Forecast_Datetime
        /\ \A n \in Indices(fig_time) :
              "ensemble" \in DOMAIN fig_time[n] =>
                  \A j \in 1..(Len(fig_time[n].x) - 1) : fig_time[n].x[j] < fig_time[n].x[j + 1]

\* A group of two rows with different MSLP was averaged, and a member whose rows came
\* latest first was plotted over two times.
C4_Witness ==
    /\ Plotted
    /\ \E j, k \in Indices(filtered_df) :
          /\ j # k
          /\ GroupKey(filtered_df[j]) = GroupKey(filtered_df[k])
          /\ filtered_df[j].MSLP # filtered_df[k].MSLP
    /\ \E j, k \in Indices(filtered_df) :
          /\ j < k
          /\ filtered_df[j].Ensemble = filtered_df[k].Ensemble
          /\ filtered_df[j].Dataset = filtered_df[k].Dataset
          /\ filtered_df[j].Forecast_Datetime > filtered_df[k].Forecast_Datetime

TrajectoryOf(r) == <<r.Ensemble, r.Dataset>>

TimesOf(key) ==
    {filtered_df[k].Forecast_Datetime :
        k \in {n \in Indices(filtered_df) : TrajectoryOf(filtered_df[n]) = key}}

TraceOf(t) == <<t.ensemble, t.dataset>>

LinesOf(key) == {n \in Indices(fig_map) : TraceOf(fig_map[n]) = key}

WarningsOf(key) ==
    {n \in Indices(messages) :
        /\ messages[n].kind = "warning"
        /\ TraceOf(messages[n]) = key}

\* C5: a trajectory of filtered_df has a line on the map exactly if it has two or
\* more distinct times, and otherwise has a warning and no line; a line holds every
\* row of its trajectory, in ascending time.
C5_MapLines ==
    Plotted =>
        /\ \A k \in Indices(filtered_df) :
              LET key == TrajectoryOf(filtered_df[k])
              IN  /\ Cardinality(LinesOf(key)) = (IF Cardinality(TimesOf(key)) >= 2 THEN 1 ELSE 0)
                  /\ Cardinality(WarningsOf(key)) = (IF Cardinality(TimesOf(key)) >= 2 THEN 0 ELSE 1)
        /\ \A n \in Indices(fig_map) :
              /\ \E k \in Indices(filtered_df) : TrajectoryOf(filtered_df[k]) = TraceOf(fig_map[n])
              /\ Len(fig_map[n].text) =
                    Cardinality({k \in Indices(filtered_df) :
                                    TrajectoryOf(filtered_df[k]) = TraceOf(fig_map[n])})
              /\ \A j \in 1..(Len(fig_map[n].text) - 1) :
                    fig_map[n].text[j][2] <= fig_map[n].text[j + 1][2]

\* One trajectory with two times, its rows latest first, got a line, and another with
\* a single time got a warning.
C5_Witness ==
    /\ Plotted
    /\ fig_map # <<>>
    /\ \E n \in Indices(messages) : messages[n].kind = "warning" /\ messages[n].timestamps = 1
    /\ \E j, k \in Indices(filtered_df) :
          /\ j < k
          /\ TrajectoryOf(filtered_df[j]) = TrajectoryOf(filtered_df[k])
          /\ filtered_df[j].Forecast_Datetime > filtered_df[k].Forecast_Datetime

StatLines == {n \in Indices(fig_time) : "ensemble" \notin DOMAIN fig_time[n]}

\* C6: every statistic selected in the sidebar has its line in the time series
\* figure, holding that column of stats_df, or the page reports the statistic as
\* unsupported; there is no line of a statistic that was not selected.
C6_RequestedStatistics ==
    Plotted =>
        /\ \A stat \in selected_stats :
              \/ \E n \in StatLines :
                    /\ fig_time[n].name = stat
                    /\ fig_time[n].y = [j \in Indices(stats_df) |-> stats_df[j][stat]]
              \/ \E n \in Indices(messages) : messages[n].kind = "unsupported_statistic"
        /\ Cardinality(StatLines) = Cardinality(selected_stats)

\* Two statistics were selected, one of them the 25th percentile, and plotted.
C6_Witness ==
    /\ Plotted
    /\ Cardinality(selected_stats) = 2
    /\ "25th Percentile" \in selected_stats
    /\ Cardinality(StatLines) = 2

AtTime(t) == {k \in Indices(filtered_df) : filtered_df[k].Forecast_Datetime = t}

OfDataset(K, d) == {k \in K : filtered_df[k].Dataset = d}

DatasetsAt(K) == {filtered_df[k].Dataset : k \in K}

\* The sum over the datasets of each dataset's own sum, and the number of rows.
RECURSIVE Recombined(_, _)
Recombined(K, datasets) ==
    IF datasets = {} THEN <<Rat(0, 1), 0>>
    ELSE LET d    == CHOOSE x \in datasets : TRUE
             rest == Recombined(K, datasets \ {d})
         IN  <<RAdd(SumAt(OfDataset(K, d)), rest[1]), Cardinality(OfDataset(K, d)) + rest[2]>>

\* C7: stats_df has one row per distinct time of filtered_df, in ascending time, and
\* its Mean is the arithmetic mean of the MSLP of all filtered rows of that time,
\* whatever their member and dataset: the datasets' sums and counts recombined.
C7_SummaryMean ==
    Plotted =>
        /\ {stats_df[j].Forecast_Datetime : j \in Indices(stats_df)}
              = {filtered_df[k].Forecast_Datetime : k \in Indices(filtered_df)}
        /\ \A j \in 1..(Len(stats_df) - 1) :
              stats_df[j].Forecast_Datetime < stats_df[j + 1].Forecast_Datetime
        /\ \A j \in Indices(stats_df) :
              LET K   == AtTime(stats_df[j].Forecast_Datetime)
                  all == Recombined(K, DatasetsAt(K))
              IN  /\ all[2] = Cardinality(K)
                  /\ RMul(stats_df[j].Mean, Rat(all[2], 1)) = all[1]

\* Two datasets gave one row each at one time, with different MSLP, and the Mean of
\* that time is half their sum; the rows span two times, the later one first.
C7_Witness ==
    /\ Plotted
    /\ Len(stats_df) = 2
    /\ filtered_df[1].Forecast_Datetime > filtered_df[Len(filtered_df)].Forecast_Datetime
    /\ \E j \in Indices(stats_df) :
          LET K == AtTime(stats_df[j].Forecast_Datetime)
          IN  /\ Cardinality(K) = 2
              /\ Cardinality(DatasetsAt(K)) = 2
              /\ \E a, b \in K :
                    /\ filtered_df[a].MSLP # filtered_df[b].MSLP
                    /\ stats_df[j].Mean =
                          RMul(RAdd(filtered_df[a].MSLP, filtered_df[b].MSLP), Rat(1, 2))

\* The dataset a prefix stands for.
OwnDataset(position) == <<"Gencast", "GEFS", "IFS">>[position]

\* C8: a file under a prefix that has the columns of the prefix's own dataset is
\* ingested by that dataset's rules and the table is stored in that dataset's own
\* slot, the Gencast and GEFS tables tagged Gencast and GEFS.  (A Gencast file
\* without rows may fail to load; it counts only when it loaded.)
C8_OwnBranchOwnSlot ==
    \A n \in Indices(calls) :
        LET c   == calls[n]
            own == OwnDataset(c.position)
        IN  (/\ (required_columns(own) \cup {"Latitude", "Longitude"}) \subseteq c.columns
             /\ own = "Gencast" => c.returned.some)
            => /\ c.returned.some
               /\ branch_of(c.dataset) = own
               /\ slots[c.position] = c.returned
               /\ own # "IFS" =>
                     \A k \in Indices(c.returned.rows) : c.returned.rows[k].Dataset = own

\* The selector a row's ensemble is offered in.
OwnSelection(r) ==
    IF r.Dataset = "Gencast" THEN selected_gencast
    ELSE IF r.Dataset = "GEFS" THEN selected_gefs
    ELSE selected_ifs

\* C9: every row the filter keeps has its Ensemble selected in the selector of its
\* own dataset.
C9_SelectionPerDataset ==
    pc = "done" =>
        \A k \in Indices(filtered_df) : filtered_df[k].Ensemble \in OwnSelection(filtered_df[k])

\* The tables load_data returned in the load loop, in the loop's order.
Returned == LET ok(c) == c.returned.some IN SelectSeq(calls, ok)

\* C10: the combined table is None exactly if no call of load_data returned a
\* table, and otherwise holds the rows of every returned table, once each, in the
\* order Gencast, GEFS, IFS.
C10_CombinedIsAllLoaded ==
    [][pc = "combine" =>
          df' = IF Returned = <<>> THEN None
                ELSE DF(flatten([n \in Indices(Returned) |-> Returned[n].returned.rows]))]_vars

====
